---------------------------- MODULE Spec2Model ----------------------------
(***************************************************************************)
(* The markdown-aware line-editing core of MarkdownEditor.cpp: Enter       *)
(* (handleCarriageReturn), Backspace (handleBackspaceKey), typed           *)
(* characters (handleEndPairCharacterTyped, insertPairedCharacters) and    *)
(* the formatting actions (insertFormattingMarkup).                        *)
(*                                                                         *)
(* The document is the character sequence of a QTextDocument, blocks       *)
(* separated by "\n"; a cursor is a pair of 0-based offsets (anchor,       *)
(* position) as in QTextCursor.  A character is a one-character string;    *)
(* NUL stands for QChar(0) and GRAVE for the grave accent (backquote).     *)
(***************************************************************************)
EXTENDS Integers, Sequences, FiniteSets, TLC

VARIABLES
    document,             \* the text of the QTextDocument, "\n" between blocks
    position,             \* textCursor().position()
    anchor,               \* textCursor().anchor()
    markupPairs,          \* QHash<QChar, QChar>: opener -> closer
    autoMatchFilter,      \* QHash<QChar, bool>: opener -> auto-match enabled
    autoMatchEnabled,     \* the global auto-match switch
    hemingwayModeEnabled, \* Backspace and Delete are disabled when set
    insertSpacesForTabs,  \* Tab inserts spaces instead of a tab character
    tabWidth,             \* the number of columns of a tab stop
    bulletPointCyclingEnabled, \* Tab and Shift+Tab rotate the bullet marker
    events,               \* the edit blocks and edits of the last operation
    dispatched,           \* the block state the last key was dispatched on
    typingHasPaused,      \* no text change since the last tick of the typing timer
    typingPausedSignalSent, \* typingPaused was emitted since typing last resumed
    signals,              \* the typing signals emitted so far
    trace                 \* history: the keys pressed, each with the state before it

vars == <<document, position, anchor, markupPairs, autoMatchFilter,
          autoMatchEnabled, hemingwayModeEnabled, insertSpacesForTabs, tabWidth,
          bulletPointCyclingEnabled, events, dispatched, typingHasPaused,
          typingPausedSignalSent, signals, trace>>

\* the state of the typing-pause detection
typing == <<typingHasPaused, typingPausedSignalSent, signals>>

\* the settings of the Tab key
tabSettings == <<insertSpacesForTabs, tabWidth, bulletPointCyclingEnabled>>

(***************************************************************************)
(* Characters and strings                                                  *)
(***************************************************************************)
NUL == "NUL"

GRAVE == "GRAVE"

Digits == <<"0", "1", "2", "3", "4", "5", "6", "7", "8", "9">>

IsDigit(c) == \E i \in 1..10 : Digits[i] = c

DigitValue(c) == (CHOOSE i \in 1..10 : Digits[i] = c) - 1

\* QChar::isSpace and the \s of QRegExp, on the characters of a block's text
IsSpace(c) == c \in {" ", "\t"}

IntMax == 2147483647

IntMin == (-2147483647) - 1

\* QString::left(n)
StrLeft(s, n) == SubSeq(s, 1, n)

\* QString::mid(i)
StrMid(s, i) == SubSeq(s, i + 1, Len(s))

\* QString::operator[] on a non-const QString: QChar(0) past the end
CharAt(s, i) == IF i >= 0 /\ i < Len(s) THEN s[i + 1] ELSE NUL

Min(a, b) == IF a < b THEN a ELSE b

Max(a, b) == IF a < b THEN b ELSE a

RECURSIVE SkipSpaces(_, _)
\* the index after the longest run of whitespace of s that starts at index i
SkipSpaces(s, i) ==
    IF i < Len(s) /\ IsSpace(s[i + 1]) THEN SkipSpaces(s, i + 1) ELSE i

RECURSIVE SkipDigits(_, _)
\* the index after the longest run of digits of s that starts at index i
SkipDigits(s, i) ==
    IF i < Len(s) /\ IsDigit(s[i + 1]) THEN SkipDigits(s, i + 1) ELSE i

(***************************************************************************)
(* The four patterns.  XMatch(s) is QRegExp::indexIn(s, 0) followed by     *)
(* matchedLength(): the length of the match at the start of s, or -1.      *)
(***************************************************************************)
\* "^\\s*([0-9]+)[.)]\\s+"
NumberedListMatch(s) ==
    LET a == SkipSpaces(s, 0)
        b == SkipDigits(s, a)
        e == SkipSpaces(s, b + 1)
    IN  IF b > a /\ CharAt(s, b) \in {".", ")"} /\ e > b + 1 THEN e ELSE -1

\* capturedTexts().at(1) of numberedListRegex
NumberedListCapture(s) ==
    LET a == SkipSpaces(s, 0) IN SubSeq(s, a + 1, SkipDigits(s, a))

\* "^\\s*[+*-]\\s+"
BulletListMatch(s) ==
    LET a == SkipSpaces(s, 0)
        e == SkipSpaces(s, a + 1)
    IN  IF CharAt(s, a) \in {"+", "*", "-"} /\ e > a + 1 THEN e ELSE -1

\* "^\\s*[-] \\[([x ])\\]\\s+"
TaskListMatch(s) ==
    LET a == SkipSpaces(s, 0)
        e == SkipSpaces(s, a + 5)
    IN  IF /\ CharAt(s, a) = "-"
           /\ CharAt(s, a + 1) = " "
           /\ CharAt(s, a + 2) = "["
           /\ CharAt(s, a + 3) \in {"x", " "}
           /\ CharAt(s, a + 4) = "]"
           /\ e > a + 5
        THEN e ELSE -1

RECURSIVE QuoteMarkers(_, _)
\* the end of (>\s*)+ from index i, where s[i] is a '>'
QuoteMarkers(s, i) ==
    LET e == SkipSpaces(s, i + 1)
    IN  IF CharAt(s, e) = ">" THEN QuoteMarkers(s, e) ELSE e

\* "^ {0,3}(>\\s*)+"
BlockquoteMatch(s) ==
    LET k == CHOOSE n \in 0..Len(s) :
                 /\ \A i \in 1..n : s[i] = " "
                 /\ (n = Len(s) \/ s[n + 1] # " ")
    IN  IF k <= 3 /\ CharAt(s, k) = ">" THEN QuoteMarkers(s, k) ELSE -1

\* a variant that accepts a match of the pattern at the start of s
ExactMatch_Prefix(matchedLength, s) == matchedLength >= 0

\* QRegExp::exactMatch: the pattern matches the whole of s
ExactMatch(matchedLength, s) == matchedLength = Len(s)

(***************************************************************************)
(* QTextBlock::userState(), set by the highlighter from the block's text.  *)
(***************************************************************************)
MarkdownStateBlockquote == "MarkdownStateBlockquote"

MarkdownStateNumberedList == "MarkdownStateNumberedList"

MarkdownStateBulletPointList == "MarkdownStateBulletPointList"

MarkdownStateParagraph == "MarkdownStateParagraph"

UserState(s) ==
    IF BlockquoteMatch(s) >= 0 THEN MarkdownStateBlockquote
    ELSE IF NumberedListMatch(s) >= 0 THEN MarkdownStateNumberedList
    ELSE IF TaskListMatch(s) >= 0 \/ BulletListMatch(s) >= 0
         THEN MarkdownStateBulletPointList
    ELSE MarkdownStateParagraph

(***************************************************************************)
(* The document and its cursors                                            *)
(***************************************************************************)
\* QTextBlock::position() of the block that holds offset p
BlockStart(d, p) ==
    IF \E q \in 1..p : d[q] = "\n"
    THEN CHOOSE q \in 1..p : d[q] = "\n" /\ \A r \in (q + 1)..p : d[r] # "\n"
    ELSE 0

\* the offset of the end of the block that holds offset p (before its "\n")
BlockEnd(d, p) ==
    IF \E q \in (p + 1)..Len(d) : d[q] = "\n"
    THEN (CHOOSE q \in (p + 1)..Len(d) :
              d[q] = "\n" /\ \A r \in (p + 1)..(q - 1) : d[r] # "\n") - 1
    ELSE Len(d)

\* QTextBlock::text()
BlockText(d, p) == SubSeq(d, BlockStart(d, p) + 1, BlockEnd(d, p))

\* QTextCursor::positionInBlock()
PositionInBlock(d, p) == p - BlockStart(d, p)

\* QTextCursor::insertText at offset p of a cursor without selection
InsertText(d, p, s) == StrLeft(d, p) \o s \o StrMid(d, p)

\* QTextCursor::removeSelectedText of the range from..to
RemoveText(d, from, to) == StrLeft(d, from) \o StrMid(d, to)

\* How the document moves another cursor's offset c when n characters are
\* inserted at offset at: an offset at or after the insertion moves right.
AfterInsert(c, at, n) == IF c >= at THEN c + n ELSE c

\* How the document moves another cursor's offset c when from..to is removed.
AfterRemove(c, from, to) ==
    IF c >= to THEN c - (to - from) ELSE IF c > from THEN from ELSE c

HasSelection == anchor # position

SelectionStart == Min(anchor, position)

SelectionEnd == Max(anchor, position)

(***************************************************************************)
(* What an operation does to the document, in order: it opens an edit      *)
(* block, closes one, or changes the text.  A change outside an edit block *)
(* is an edit block of its own: the document signals contentsChange, and   *)
(* records an undo step, when the outermost edit block closes.             *)
(***************************************************************************)
BeginEditBlock == "beginEditBlock"

EndEditBlock == "endEditBlock"

Edit == "edit"

\* an insertText of s without selection: no change when s is empty
EditIf(changed) == IF changed THEN <<Edit>> ELSE <<>>

(***************************************************************************)
(* The detection of typing pauses: onTextChanged, connected to the         *)
(* document's contentsChanged signal, and checkIfTypingPaused, connected   *)
(* to the timeout of the typing timer, which is started with an interval   *)
(* of one second and never stopped.                                        *)
(***************************************************************************)
TypingResumed == "typingResumed"

TypingPaused == "typingPaused"

\* the constructor
ConstructedTyping ==
    /\ typingPausedSignalSent = TRUE
    /\ typingHasPaused = TRUE
    /\ signals = <<>>

\* the body of onTextChanged()
TextChanged ==
    IF typingHasPaused
    THEN /\ typingHasPaused' = FALSE
         /\ typingPausedSignalSent' = FALSE
         /\ signals' = Append(signals, TypingResumed)
    ELSE UNCHANGED typing

\* the document emits contentsChanged after an edit, or at the end of an
\* edit block with edits, of the operation whose events are ev
ContentsChanged(ev) ==
    IF \E i \in 1..Len(ev) : ev[i] = Edit THEN TextChanged ELSE UNCHANGED typing

\* onTextChanged() after a change of the text that no key of the model made
\* (paste, undo, loading a file)
onTextChanged ==
    /\ TextChanged
    /\ UNCHANGED <<document, position, anchor, markupPairs, autoMatchFilter,
                   autoMatchEnabled, hemingwayModeEnabled, tabSettings, events,
                   dispatched, trace>>

\* checkIfTypingPaused(), at a timeout of the typing timer
checkIfTypingPaused ==
    /\ IF typingHasPaused /\ ~typingPausedSignalSent
       THEN /\ typingPausedSignalSent' = TRUE
            /\ signals' = Append(signals, TypingPaused)
       ELSE UNCHANGED <<typingPausedSignalSent, signals>>
    /\ typingHasPaused' = TRUE
    /\ UNCHANGED <<document, position, anchor, markupPairs, autoMatchFilter,
                   autoMatchEnabled, hemingwayModeEnabled, tabSettings, events,
                   dispatched, trace>>

(***************************************************************************)
(* Numbers of numbered-list items                                          *)
(***************************************************************************)
RECURSIVE ToIntFrom(_, _, _)
\* the value of the digits of s from the i-th on, after the value acc of
\* those before; -1 when it does not fit a 32-bit int
ToIntFrom(s, i, acc) ==
    IF i > Len(s) THEN acc
    ELSE IF acc > (IntMax - DigitValue(s[i])) \div 10 THEN -1
    ELSE ToIntFrom(s, i + 1, acc * 10 + DigitValue(s[i]))

\* QString::toInt() of a string of digits: 0 when the conversion fails
ToInt(s) ==
    IF s = <<>> \/ ToIntFrom(s, 1, 0) < 0 THEN 0 ELSE ToIntFrom(s, 1, 0)

\* number++ on an int: at INT_MAX the increment overflows, which is
\* undefined; the builds of the editor wrap around.
PostIncrement(n) == IF n = IntMax THEN {IntMin} ELSE {n + 1}

RECURSIVE NatDecimal(_)
NatDecimal(n) ==
    IF n < 10 THEN <<Digits[n + 1]>>
    ELSE NatDecimal(n \div 10) \o <<Digits[(n % 10) + 1]>>

RECURSIVE NegDecimal(_)
\* the digits of -n for n < 0, computed without leaving the int range
NegDecimal(n) ==
    LET dg == (10 - (n % 10)) % 10
        rest == (n + dg) \div 10
    IN  IF rest = 0 THEN <<Digits[dg + 1]>>
        ELSE NegDecimal(rest) \o <<Digits[dg + 1]>>

\* QString("%1").arg(number)
ToDecimal(n) == IF n < 0 THEN <<"-">> \o NegDecimal(n) ELSE NatDecimal(n)

\* a variant that leaves the numbers as they are
ReplaceDigitRuns_Keep(s, i, r) == StrMid(s, i)

RECURSIVE ReplaceDigitRuns(_, _, _)
\* QString::replace(QRegExp("\\d+"), r) on s, from index i on
ReplaceDigitRuns(s, i, r) ==
    IF i >= Len(s) THEN <<>>
    ELSE IF IsDigit(s[i + 1]) THEN r \o ReplaceDigitRuns(s, SkipDigits(s, i), r)
    ELSE <<s[i + 1]>> \o ReplaceDigitRuns(s, i + 1, r)

\* QString::replace(QChar before, QChar after)
ReplaceChar(s, before, after) ==
    [i \in 1..Len(s) |-> IF s[i] = before THEN after ELSE s[i]]

(***************************************************************************)
(* The continuation engine: handleCarriageReturn                           *)
(***************************************************************************)
\* getPriorIndentation() on the text of the cursor's block
GetPriorIndentation(text) == StrLeft(text, SkipSpaces(text, 0))

\* getPriorMarkdownBlockItemStart(itemRegex) on the text of the cursor's
\* block, given the pattern's match length there
GetPriorMarkdownBlockItemStart(matchedLength, text) ==
    IF matchedLength >= 0 THEN StrLeft(text, matchedLength) ELSE <<>>

Continue(t) == {[autoInsertText |-> t, endList |-> FALSE]}

EndList(t) == {[autoInsertText |-> t, endList |-> TRUE]}

\* a variant that does not truncate the indentation at the cursor's column
MidLineInsertText_Whole(text, col) == GetPriorIndentation(text)

\* the cursor is before the end of the block's text
MidLineInsertText(text, col) ==
    LET autoInsertText == GetPriorIndentation(text)
    IN  IF col < Len(autoInsertText) THEN StrLeft(autoInsertText, col)
        ELSE autoInsertText

\* The number of a continued numbered-list item.
NextNumbers(capture) == PostIncrement(ToInt(capture))

\* case MarkdownStateNumberedList
NumberedListOutcomes(text) ==
    LET autoInsertText ==
            GetPriorMarkdownBlockItemStart(NumberedListMatch(text), text)
    IN  IF autoInsertText # <<>>
        THEN IF Len(text) = Len(autoInsertText)
             THEN EndList(autoInsertText)
             ELSE UNION {Continue(ReplaceDigitRuns(autoInsertText, 0, ToDecimal(number))) :
                         number \in NextNumbers(NumberedListCapture(text))}
        ELSE Continue(GetPriorIndentation(text))

\* a variant that copies the box as it is
UncheckTask_Keeps(autoInsertText) == autoInsertText

\* a completed task is not added as the new task
UncheckTask(autoInsertText) == ReplaceChar(autoInsertText, "x", " ")

\* case MarkdownStateBulletPointList
BulletPointOutcomes(text) ==
    LET task == GetPriorMarkdownBlockItemStart(TaskListMatch(text), text)
        bullet == GetPriorMarkdownBlockItemStart(BulletListMatch(text), text)
    IN  IF task = <<>>
        THEN IF bullet = <<>> THEN Continue(GetPriorIndentation(text))
             ELSE IF Len(text) = Len(bullet) THEN EndList(bullet)
             ELSE Continue(bullet)
        ELSE IF Len(text) = Len(task) THEN EndList(task)
             ELSE Continue(UncheckTask(task))

\* a variant that ends the quote on a line that is only its marker, the way
\* the list cases do
BlockquoteOutcomes_Ends(text) ==
    LET autoInsertText == GetPriorMarkdownBlockItemStart(BlockquoteMatch(text), text)
    IN  IF Len(text) = Len(autoInsertText) THEN EndList(autoInsertText)
        ELSE Continue(autoInsertText)

\* case MarkdownStateBlockquote
BlockquoteOutcomes(text) ==
    Continue(GetPriorMarkdownBlockItemStart(BlockquoteMatch(text), text))

\* The text handleCarriageReturn computes for a cursor at column col of a
\* block with this text, and whether the list ends: the set of outcomes.
CarriageReturnOutcomes(text, col) ==
    IF col < Len(text) THEN Continue(MidLineInsertText(text, col))
    ELSE IF UserState(text) = MarkdownStateNumberedList THEN NumberedListOutcomes(text)
    ELSE IF UserState(text) = MarkdownStateBulletPointList THEN BulletPointOutcomes(text)
    ELSE IF UserState(text) = MarkdownStateBlockquote THEN BlockquoteOutcomes(text)
    ELSE Continue(GetPriorIndentation(text))

\* a variant that does not clear the marker of the list's last line
HandleCarriageReturn_KeepsMarker(d, p, o) ==
    IF o.endList
    THEN [document |-> InsertText(d, p, <<"\n">>), position |-> p + 1,
          events |-> <<Edit>>]
    ELSE [document |-> InsertText(d, p, <<"\n">> \o o.autoInsertText),
          position |-> p + 1 + Len(o.autoInsertText),
          events |-> <<Edit>>]

\* The document and the cursor after handleCarriageReturn, for a cursor
\* without selection at offset p and the outcome o computed above.  The
\* function opens no edit block: to end a list it replaces the block's text
\* with one insertText and inserts the new block with another.
HandleCarriageReturn(d, p, o) ==
    IF o.endList
    THEN LET indent == GetPriorIndentation(BlockText(d, p))
             start == BlockStart(d, p)
         IN  [document |-> StrLeft(d, start) \o indent \o <<"\n">>
                               \o StrMid(d, BlockEnd(d, p)),
              position |-> start + Len(indent) + 1,
              events |-> <<Edit, Edit>>]
    ELSE [document |-> InsertText(d, p, <<"\n">> \o o.autoInsertText),
          position |-> p + 1 + Len(o.autoInsertText),
          events |-> <<Edit>>]

(***************************************************************************)
(* History: the key pressed, the state it was pressed in, whether the      *)
(* engine handled it, and the buffer and cursor the engine left.           *)
(***************************************************************************)
Pressed(key, arg, handled, engine) ==
    [key |-> key, arg |-> arg, handled |-> handled, engine |-> engine,
     document |-> document, position |-> position, anchor |-> anchor,
     markupPairs |-> markupPairs, autoMatchFilter |-> autoMatchFilter,
     autoMatchEnabled |-> autoMatchEnabled,
     hemingwayModeEnabled |-> hemingwayModeEnabled,
     insertSpacesForTabs |-> insertSpacesForTabs, tabWidth |-> tabWidth,
     bulletPointCyclingEnabled |-> bulletPointCyclingEnabled]

Buffer(d, p, a) == [document |-> d, position |-> p, anchor |-> a]

Untouched == Buffer(document, position, anchor)

\* cursor.block().userState() as a handler read it, with the text the
\* block had when it was read; NoDispatch when the handler read no state
Dispatch(state, text) == [state |-> state, text |-> text]

NoDispatch == Dispatch("", <<>>)

Modifiers(shift, ctrl) ==
    IF shift THEN (IF ctrl THEN "ShiftCtrl" ELSE "Shift")
    ELSE (IF ctrl THEN "Ctrl" ELSE "")

(***************************************************************************)
(* keyPressEvent, Qt::Key_Return.  With a selection the key goes to the    *)
(* base class, which replaces the selection by a new block; that is        *)
(* modelled for the unmodified key.                                        *)
(***************************************************************************)
Return(shift, ctrl) ==
    /\ HasSelection => ~shift /\ ~ctrl
    /\ IF ~HasSelection
       THEN LET d1 == IF shift THEN InsertText(document, position, <<" ", " ">>)
                      ELSE document
                p1 == IF shift THEN position + 2 ELSE position
            IN  IF ctrl
                THEN /\ document' = InsertText(d1, p1, <<"\n">>)
                     /\ position' = p1 + 1
                     /\ events' = EditIf(shift) \o <<Edit>>
                     /\ dispatched' = NoDispatch
                ELSE \E o \in CarriageReturnOutcomes(BlockText(d1, p1),
                                                     PositionInBlock(d1, p1)) :
                        /\ document' = HandleCarriageReturn(d1, p1, o).document
                        /\ position' = HandleCarriageReturn(d1, p1, o).position
                        /\ events' = EditIf(shift)
                                         \o HandleCarriageReturn(d1, p1, o).events
                        /\ dispatched' =
                               IF PositionInBlock(d1, p1) < Len(BlockText(d1, p1))
                               THEN NoDispatch
                               ELSE Dispatch(UserState(BlockText(d1, p1)),
                                             BlockText(d1, p1))
       ELSE /\ document' = InsertText(RemoveText(document, SelectionStart, SelectionEnd),
                                      SelectionStart, <<"\n">>)
            /\ position' = SelectionStart + 1
            /\ events' = <<Edit>>
            /\ dispatched' = NoDispatch
    /\ anchor' = position'
    /\ trace' = Append(trace, Pressed("Return", Modifiers(shift, ctrl), ~HasSelection,
                                      Buffer(document', position', anchor')))
    /\ UNCHANGED <<markupPairs, autoMatchFilter, autoMatchEnabled, hemingwayModeEnabled,
                   tabSettings>>
    /\ ContentsChanged(events')

(***************************************************************************)
(* The smart-backspace engine: handleBackspaceKey                          *)
(***************************************************************************)
\* QString::indexOf(QRegExp) for a one-character class: the first index of
\* s that holds a character of the set, or -1
IndexOf(s, class) ==
    IF \E i \in 1..Len(s) : s[i] \in class
    THEN (CHOOSE i \in 1..Len(s) :
              s[i] \in class /\ \A j \in 1..(i - 1) : s[j] \notin class) - 1
    ELSE -1

\* a variant that gives the first index of c
LastIndexOf_First(s, c) == IndexOf(s, {c})

\* QString::lastIndexOf(QChar)
LastIndexOf(s, c) ==
    IF \E i \in 1..Len(s) : s[i] = c
    THEN (CHOOSE i \in 1..Len(s) :
              s[i] = c /\ \A j \in (i + 1)..Len(s) : s[j] # c) - 1
    ELSE -1

\* The index in the block's text from which Backspace deletes to the end of
\* the block, or -1.
BacktrackIndex(text) ==
    IF UserState(text) = MarkdownStateNumberedList
    THEN IF ExactMatch(NumberedListMatch(text), text)
         THEN IndexOf(text, {Digits[i] : i \in 1..10}) ELSE -1
    ELSE IF UserState(text) = MarkdownStateBulletPointList
    THEN IF ExactMatch(BulletListMatch(text), text) \/ ExactMatch(TaskListMatch(text), text)
         THEN IndexOf(text, {"+", "*", "-"}) ELSE -1
    ELSE IF UserState(text) = MarkdownStateBlockquote
    THEN IF ExactMatch(BlockquoteMatch(text), text)
         THEN LastIndexOf(text, ">") ELSE -1
    ELSE -1

\* markupPairs[key] on the non-const QHash: a key that is not in the table
\* is inserted with a default-constructed QChar, which is QChar(0).
LookedUp(pairs, key) ==
    IF key \in DOMAIN pairs THEN pairs ELSE pairs @@ (key :> NUL)

\* The default case of the switch: the first character of an automatched
\* pair is deleted together with the second.  currentChar is read with
\* QString::operator[], which gives QChar(0) at the end of the text.
PairBackspace(d, p, pairs, enabled) ==
    LET text == BlockText(d, p)
        col == PositionInBlock(d, p)
        currentChar == CharAt(text, col)
        previousChar == CharAt(text, col - 1)
    IN  IF enabled /\ col > 0
        THEN IF LookedUp(pairs, previousChar)[previousChar] = currentChar
             THEN [handled |-> TRUE,
                   buffer |-> Buffer(RemoveText(d, p - 1, Min(p + 1, Len(d))), p - 1, p - 1),
                   markupPairs |-> LookedUp(pairs, previousChar)]
             ELSE [handled |-> FALSE, buffer |-> Buffer(d, p, p),
                   markupPairs |-> LookedUp(pairs, previousChar)]
        ELSE [handled |-> FALSE, buffer |-> Buffer(d, p, p), markupPairs |-> pairs]

\* handleBackspaceKey(): whether it handled the key, and the buffer, the
\* cursor and the delimiter table it leaves.
HandleBackspaceKey ==
    LET text == BlockText(document, position)
        start == BlockStart(document, position)
        from == start + BacktrackIndex(text)
        to == BlockEnd(document, position)
    IN  IF HasSelection
        THEN [handled |-> FALSE, buffer |-> Untouched, markupPairs |-> markupPairs]
        ELSE IF UserState(text) \notin {MarkdownStateNumberedList,
                                        MarkdownStateBulletPointList,
                                        MarkdownStateBlockquote}
        THEN PairBackspace(document, position, markupPairs, autoMatchEnabled)
        ELSE IF BacktrackIndex(text) >= 0
        THEN [handled |-> TRUE,
              buffer |-> Buffer(RemoveText(document, from, to),
                                AfterRemove(position, from, to),
                                AfterRemove(position, from, to)),
              markupPairs |-> markupPairs]
        ELSE [handled |-> FALSE, buffer |-> Untouched, markupPairs |-> markupPairs]

\* QPlainTextEdit::keyPressEvent for Backspace: the selection, or else the
\* character before the cursor, is deleted.
DefaultBackspace(b) ==
    IF b.anchor # b.position
    THEN Buffer(RemoveText(b.document, Min(b.anchor, b.position), Max(b.anchor, b.position)),
                Min(b.anchor, b.position), Min(b.anchor, b.position))
    ELSE IF b.position > 0
    THEN Buffer(RemoveText(b.document, b.position - 1, b.position),
                b.position - 1, b.position - 1)
    ELSE b

\* keyPressEvent, Qt::Key_Backspace
Backspace ==
    /\ IF hemingwayModeEnabled
       THEN /\ UNCHANGED <<document, position, anchor, markupPairs>>
            /\ events' = <<>>
            /\ dispatched' = NoDispatch
            /\ trace' = Append(trace, Pressed("Backspace", "", FALSE, Untouched))
       ELSE LET r == HandleBackspaceKey
                b == IF r.handled THEN r.buffer ELSE DefaultBackspace(r.buffer)
            IN  /\ document' = b.document
                /\ position' = b.position
                /\ anchor' = b.anchor
                /\ markupPairs' = r.markupPairs
                /\ events' = EditIf(b.document # document)
                /\ dispatched' =
                       IF HasSelection THEN NoDispatch
                       ELSE Dispatch(UserState(BlockText(document, position)),
                                     BlockText(document, position))
                /\ trace' = Append(trace, Pressed("Backspace", "", r.handled, r.buffer))
    /\ UNCHANGED <<autoMatchFilter, autoMatchEnabled, hemingwayModeEnabled, tabSettings>>
    /\ ContentsChanged(events')

(***************************************************************************)
(* The delimiter pairing engine                                            *)
(***************************************************************************)
\* autoMatchFilter.value(key): false for a key that is not in the table
FilterValue(key) == key \in DOMAIN autoMatchFilter /\ autoMatchFilter[key]

\* markupPairs.values().contains(ch)
IsCloser(ch) == \E k \in DOMAIN markupPairs : markupPairs[k] = ch

\* markupPairs.key(ch): a key whose value is ch
KeyOf(ch) == CHOOSE k \in DOMAIN markupPairs : markupPairs[k] = ch

\* a variant that never skips over the character after the cursor
HandleEndPairCharacterTyped_Never(ch) == FALSE

\* a variant that does not ask whether automatching is enabled for the
\* opener of ch
HandleEndPairCharacterTyped_AnyOpener(ch) ==
    LET text == BlockText(document, position)
        pos == PositionInBlock(document, position)
    IN  /\ autoMatchEnabled /\ ~HasSelection /\ IsCloser(ch)
        /\ pos < Len(text) /\ text[pos + 1] = ch

\* handleEndPairCharacterTyped(ch): true when the typed character is the
\* character after the cursor and the cursor skips over it.
HandleEndPairCharacterTyped(ch) ==
    LET lookAhead == /\ autoMatchEnabled
                     /\ ~HasSelection
                     /\ IsCloser(ch)
                     /\ FilterValue(KeyOf(ch))
        text == BlockText(document, position)
        pos == PositionInBlock(document, position)
    IN  lookAhead /\ pos < Len(text) /\ text[pos + 1] = ch

\* a variant that wraps a selection only when automatching is enabled for
\* firstChar
InsertPairedCharacters_WhenEnabled(firstChar) ==
    LET lastChar == markupPairs[firstChar]
        start == SelectionStart
        anchor1 == AfterInsert(anchor, start, 1)
        position1 == AfterInsert(position, start, 1)
        end1 == Max(anchor1, position1)
        anchor2 == AfterInsert(anchor1, end1, 1)
        position2 == AfterInsert(position1, end1, 1)
    IN  IF firstChar \notin DOMAIN markupPairs
        THEN [handled |-> FALSE, buffer |-> Untouched]
        ELSE IF ~(autoMatchEnabled /\ FilterValue(firstChar))
        THEN [handled |-> FALSE, buffer |-> Untouched]
        ELSE IF HasSelection
        THEN IF BlockStart(document, SelectionStart) = BlockStart(document, SelectionEnd)
             THEN [handled |-> TRUE,
                   buffer |->
                       Buffer(InsertText(InsertText(document, start, <<firstChar>>),
                                         end1, <<lastChar>>),
                              Max(anchor2, position2) - 1,
                              Min(anchor2, position2))]
             ELSE [handled |-> FALSE, buffer |-> Untouched]
        ELSE [handled |-> TRUE,
              buffer |-> Buffer(InsertText(document, position, <<firstChar, lastChar>>),
                                position + 1, position + 1)]

\* insertPairedCharacters(firstChar): whether it handled the key, and the
\* buffer and cursor it leaves.
InsertPairedCharacters(firstChar) ==
    LET lastChar == markupPairs[firstChar]
        start == SelectionStart
        \* the widget's cursor after firstChar is inserted at the selection's start
        anchor1 == AfterInsert(anchor, start, 1)
        position1 == AfterInsert(position, start, 1)
        end1 == Max(anchor1, position1)
        \* and after lastChar is inserted at the selection's end
        anchor2 == AfterInsert(anchor1, end1, 1)
        position2 == AfterInsert(position1, end1, 1)
    IN  IF firstChar \notin DOMAIN markupPairs
        THEN [handled |-> FALSE, buffer |-> Untouched]
        ELSE IF HasSelection
        THEN IF BlockStart(document, SelectionStart) = BlockStart(document, SelectionEnd)
             THEN [handled |-> TRUE,
                   buffer |->
                       Buffer(InsertText(InsertText(document, start, <<firstChar>>),
                                         end1, <<lastChar>>),
                              Max(anchor2, position2) - 1,
                              Min(anchor2, position2))]
             ELSE [handled |-> FALSE, buffer |-> Untouched]
        ELSE IF autoMatchEnabled /\ FilterValue(firstChar)
        THEN [handled |-> TRUE,
              buffer |-> Buffer(InsertText(document, position, <<firstChar, lastChar>>),
                                position + 1, position + 1)]
        ELSE [handled |-> FALSE, buffer |-> Untouched]

\* QPlainTextEdit::keyPressEvent for a character: it replaces the selection
DefaultCharacter(ch) ==
    Buffer(InsertText(RemoveText(document, SelectionStart, SelectionEnd),
                      SelectionStart, <<ch>>),
           SelectionStart + 1, SelectionStart + 1)

\* keyPressEvent, a key with a one-character text
TypeCharacter(ch) ==
    LET skip == HandleEndPairCharacterTyped(ch)
        pair == InsertPairedCharacters(ch)
        b == IF skip THEN Buffer(document, position + 1, position + 1)
             ELSE IF pair.handled THEN pair.buffer
             ELSE DefaultCharacter(ch)
        handled == IF skip THEN "skip" ELSE IF pair.handled THEN "pair" ELSE "no"
    IN  /\ document' = b.document
        /\ position' = b.position
        /\ anchor' = b.anchor
        /\ events' = IF skip THEN <<>>
                      ELSE IF ~pair.handled THEN <<Edit>>
                      ELSE IF HasSelection
                      THEN <<BeginEditBlock, Edit, Edit, EndEditBlock>>
                      ELSE <<Edit, Edit>>
        /\ dispatched' = NoDispatch
        /\ trace' = Append(trace, Pressed("Character", ch, handled,
                                          IF handled = "no" THEN Untouched ELSE b))
        /\ UNCHANGED <<markupPairs, autoMatchFilter, autoMatchEnabled,
                       hemingwayModeEnabled, tabSettings>>
        /\ ContentsChanged(events')

(***************************************************************************)
(* keyPressEvent, a key without text: Shift+Home and Shift+End go to       *)
(* QPlainTextEdit::keyPressEvent, which moves the position to the start or *)
(* the end of the block and keeps the anchor.                              *)
(***************************************************************************)
ShiftMove(toEnd) ==
    /\ position' = IF toEnd THEN BlockEnd(document, position)
                   ELSE BlockStart(document, position)
    /\ events' = <<>>
    /\ dispatched' = NoDispatch
    /\ trace' = Append(trace, Pressed(IF toEnd THEN "ShiftEnd" ELSE "ShiftHome", "", FALSE,
                                      Untouched))
    /\ UNCHANGED <<document, anchor, markupPairs, autoMatchFilter, autoMatchEnabled,
                   hemingwayModeEnabled, tabSettings>>
    /\ ContentsChanged(events')

(***************************************************************************)
(* bold(), italic(), strikethrough(): insertFormattingMarkup               *)
(***************************************************************************)
\* insertFormattingMarkup(markup): the buffer and cursor it leaves.  The
\* markup is inserted through a copy of the cursor, and the document moves
\* the anchor and the position of the original as the text is inserted.
InsertFormattingMarkup(markup) ==
    LET n == Len(markup)
        start == SelectionStart
        end == SelectionEnd + n
        moved(c) == AfterInsert(AfterInsert(c, start, n), end, n)
    IN  IF HasSelection
        THEN Buffer(InsertText(InsertText(document, start, markup), end, markup),
                    moved(position) - n,
                    moved(anchor))
        ELSE Buffer(InsertText(document, position, markup \o markup),
                    position + n, position + n)

Format(markup) ==
    /\ document' = InsertFormattingMarkup(markup).document
    /\ position' = InsertFormattingMarkup(markup).position
    /\ anchor' = InsertFormattingMarkup(markup).anchor
    /\ events' = <<BeginEditBlock, Edit, Edit, EndEditBlock>>
    /\ dispatched' = NoDispatch
    /\ trace' = Append(trace, Pressed("Format", markup, TRUE,
                                      InsertFormattingMarkup(markup)))
    /\ UNCHANGED <<markupPairs, autoMatchFilter, autoMatchEnabled,
                   hemingwayModeEnabled, tabSettings>>
    /\ ContentsChanged(events')

bold == Format(<<"*", "*">>)

italic == Format(<<"*">>)

strikethrough == Format(<<"~", "~">>)

(***************************************************************************)
(* Tab and Shift+Tab: indentText and unindentText.  Both edit through a    *)
(* copy of the widget's cursor and never set the widget's cursor, which    *)
(* the document moves as the text changes around it.                       *)
(***************************************************************************)
\* the text a cursor of its own inserts at offset at, seen from the widget
InsertInto(b, at, s) ==
    Buffer(InsertText(b.document, at, s),
           AfterInsert(b.position, at, Len(s)),
           AfterInsert(b.anchor, at, Len(s)))

\* the range from..to a cursor of its own removes, seen from the widget
RemoveFrom(b, from, to) ==
    Buffer(RemoveText(b.document, from, to),
           AfterRemove(b.position, from, to),
           AfterRemove(b.anchor, from, to))

\* StartOfBlock, EndOfBlock with KeepAnchor, insertText(s): the text of the
\* block that holds offset p is replaced by s
ReplaceBlock(b, p, s) ==
    InsertInto(RemoveFrom(b, BlockStart(b.document, p), BlockEnd(b.document, p)),
               BlockStart(b.document, p), s)

\* a variant that stops at the block of the selection's start
BlocksCovered_First(d, from, to) == 1

\* the blocks from findBlock(from) to findBlock(to): how many they are
BlocksCovered(d, from, to) ==
    1 + Cardinality({i \in (from + 1)..to : d[i] = "\n"})

Spaces(n) == [i \in 1..n |-> " "]

\* a variant that always inserts tabWidth spaces
IndentUnit_Whole(n) == IF insertSpacesForTabs THEN Spaces(tabWidth) ELSE <<"\t">>

\* n spaces when spaces are inserted for tabs, or else a tab character
IndentUnit(n) == IF insertSpacesForTabs THEN Spaces(n) ELSE <<"\t">>

Repeat(e, n) == [i \in 1..n |-> e]

\* QString::trimmed().at(0): the first character of s that is no whitespace
FirstOfTrimmed(s) == CharAt(s, SkipSpaces(s, 0))

\* a variant that takes '*' to '+'
IndentBulletPoint_Backwards(oldBulletPoint) ==
    IF oldBulletPoint = "*" THEN "+"
    ELSE IF oldBulletPoint = "-" THEN "*"
    ELSE "-"

\* the bullet point indentText writes for oldBulletPoint
IndentBulletPoint(oldBulletPoint) ==
    IF oldBulletPoint = "*" THEN "-"
    ELSE IF oldBulletPoint = "-" THEN "+"
    ELSE "*"

\* a variant that takes '-' to '+'
UnindentBulletPoint_Forwards(oldBulletPoint) ==
    IF oldBulletPoint = "*" THEN "+"
    ELSE IF oldBulletPoint = "-" THEN "+"
    ELSE "-"

\* the bullet point unindentText writes for oldBulletPoint
UnindentBulletPoint(oldBulletPoint) ==
    IF oldBulletPoint = "*" THEN "+"
    ELSE IF oldBulletPoint = "-" THEN "*"
    ELSE "-"

RECURSIVE IndentBlocks(_, _, _, _)
\* the loop of indentText over a selection: unit is inserted at the start
\* of n blocks, the first of which starts at offset q
IndentBlocks(b, q, n, unit) ==
    IF n = 0 THEN b
    ELSE IndentBlocks(InsertInto(b, q, unit),
                      BlockEnd(InsertInto(b, q, unit).document, q) + 1,
                      n - 1, unit)

\* indentText() with a selection
IndentSelection ==
    LET n == BlocksCovered(document, SelectionStart, SelectionEnd)
        unit == IndentUnit(tabWidth)
    IN  [buffer |-> IndentBlocks(Untouched, BlockStart(document, SelectionStart),
                                 n, unit),
         events |-> <<BeginEditBlock>> \o Repeat(Edit, IF unit = <<>> THEN 0 ELSE n)
                        \o <<EndEditBlock>>]

\* indentText() without selection: the line is rewritten when it is an empty
\* numbered or bullet item, and the indentation is inserted at the start of
\* the block or at the cursor
IndentLine ==
    LET text == BlockText(document, position)
        start == BlockStart(document, position)
        state == UserState(text)
        numbered == /\ state = MarkdownStateNumberedList
                    /\ ExactMatch(NumberedListMatch(text), text)
        bullet == /\ state = MarkdownStateBulletPointList
                  /\ ExactMatch(BulletListMatch(text), text)
        task == /\ state = MarkdownStateBulletPointList
                /\ ~ExactMatch(BulletListMatch(text), text)
                /\ ExactMatch(TaskListMatch(text), text)
        oldBulletPoint == FirstOfTrimmed(text)
        rewritten ==
            IF numbered
            THEN ReplaceBlock(Untouched, position, ReplaceDigitRuns(text, 0, <<"1">>))
            ELSE IF bullet /\ bulletPointCyclingEnabled
            THEN ReplaceBlock(Untouched, position,
                              ReplaceChar(text, oldBulletPoint,
                                          IndentBulletPoint(oldBulletPoint)))
            ELSE Untouched
        at == IF numbered \/ bullet \/ task THEN start ELSE position
        indent == IF state \in {MarkdownStateNumberedList, MarkdownStateBulletPointList}
                  THEN tabWidth
                  ELSE tabWidth - (PositionInBlock(document, position) % tabWidth)
        indentText == IndentUnit(indent)
    IN  [buffer |-> InsertInto(rewritten, at, indentText),
         events |-> <<BeginEditBlock>>
                        \o EditIf(numbered \/ (bullet /\ bulletPointCyclingEnabled))
                        \o EditIf(indentText # <<>>)
                        \o <<EndEditBlock>>]

\* indentText()
IndentText == IF HasSelection THEN IndentSelection ELSE IndentLine

\* keyPressEvent, Qt::Key_Tab
Tab ==
    /\ document' = IndentText.buffer.document
    /\ position' = IndentText.buffer.position
    /\ anchor' = IndentText.buffer.anchor
    /\ events' = IndentText.events
    /\ dispatched' = IF HasSelection THEN NoDispatch
                     ELSE Dispatch(UserState(BlockText(document, position)),
                                   BlockText(document, position))
    /\ trace' = Append(trace, Pressed("Tab", "", TRUE, IndentText.buffer))
    /\ UNCHANGED <<markupPairs, autoMatchFilter, autoMatchEnabled,
                   hemingwayModeEnabled, tabSettings>>
    /\ ContentsChanged(events')

RECURSIVE SpacesAt(_, _)
\* the number of space characters of d from offset q on
SpacesAt(d, q) == IF CharAt(d, q) = " " THEN 1 + SpacesAt(d, q + 1) ELSE 0

\* the number of characters unindentText deletes at the start q of a block:
\* a tab, or else up to tabWidth spaces
DeletedAt(d, q) ==
    IF CharAt(d, q) = "\t" THEN 1 ELSE Min(SpacesAt(d, q), Max(tabWidth, 0))

RECURSIVE UnindentBlocks(_, _, _)
\* the loop of unindentText over n >= 1 blocks, the first of which starts at
\* offset q: the buffer it leaves, the offset its cursor is left at, and
\* the number of characters it deleted
UnindentBlocks(b, q, n) ==
    LET k == DeletedAt(b.document, q)
        b1 == RemoveFrom(b, q, q + k)
        rest == UnindentBlocks(b1, BlockEnd(b1.document, q) + 1, n - 1)
    IN  IF n = 1 THEN [buffer |-> b1, cursor |-> q, deleted |-> k]
        ELSE [rest EXCEPT !.deleted = @ + k]

\* a variant that reads the state of the first block of the loop
UnindentText_FirstBlockState ==
    LET n == BlocksCovered(document, SelectionStart, SelectionEnd)
        u == UnindentBlocks(Untouched, BlockStart(document, SelectionStart), n)
        state == UserState(BlockText(document, SelectionStart))
        text == BlockText(u.buffer.document, u.cursor)
        rotate == /\ state = MarkdownStateBulletPointList
                  /\ ExactMatch(BulletListMatch(text), text)
                  /\ bulletPointCyclingEnabled
        oldBulletPoint == FirstOfTrimmed(text)
    IN  [buffer |-> IF rotate
                    THEN ReplaceBlock(u.buffer, u.cursor,
                                      ReplaceChar(text, oldBulletPoint,
                                                  UnindentBulletPoint(oldBulletPoint)))
                    ELSE u.buffer,
         events |-> <<BeginEditBlock>> \o Repeat(Edit, u.deleted) \o EditIf(rotate)
                        \o <<EndEditBlock>>,
         state |-> state,
         text |-> text]

\* a variant that rewrites the bullet only after it has removed indentation
UnindentText_WhenOutdented ==
    LET n == BlocksCovered(document, SelectionStart, SelectionEnd)
        u == UnindentBlocks(Untouched, BlockStart(document, SelectionStart), n)
        state == UserState(BlockText(document, SelectionEnd))
        text == BlockText(u.buffer.document, u.cursor)
        rotate == /\ u.deleted > 0
                  /\ state = MarkdownStateBulletPointList
                  /\ ExactMatch(BulletListMatch(text), text)
                  /\ bulletPointCyclingEnabled
        oldBulletPoint == FirstOfTrimmed(text)
    IN  [buffer |-> IF rotate
                    THEN ReplaceBlock(u.buffer, u.cursor,
                                      ReplaceChar(text, oldBulletPoint,
                                                  UnindentBulletPoint(oldBulletPoint)))
                    ELSE u.buffer,
         events |-> <<BeginEditBlock>> \o Repeat(Edit, u.deleted) \o EditIf(rotate)
                        \o <<EndEditBlock>>,
         state |-> state,
         text |-> text]

\* unindentText().  After the loop the block of the cursor, the last one of
\* the loop, still carries the state the highlighter gave it before the
\* edit block was opened.
UnindentText ==
    LET n == BlocksCovered(document, SelectionStart, SelectionEnd)
        u == UnindentBlocks(Untouched, BlockStart(document, SelectionStart), n)
        state == UserState(BlockText(document, SelectionEnd))
        text == BlockText(u.buffer.document, u.cursor)
        rotate == /\ state = MarkdownStateBulletPointList
                  /\ ExactMatch(BulletListMatch(text), text)
                  /\ bulletPointCyclingEnabled
        oldBulletPoint == FirstOfTrimmed(text)
    IN  [buffer |-> IF rotate
                    THEN ReplaceBlock(u.buffer, u.cursor,
                                      ReplaceChar(text, oldBulletPoint,
                                                  UnindentBulletPoint(oldBulletPoint)))
                    ELSE u.buffer,
         events |-> <<BeginEditBlock>> \o Repeat(Edit, u.deleted) \o EditIf(rotate)
                        \o <<EndEditBlock>>,
         state |-> state,
         text |-> text]

\* keyPressEvent, Qt::Key_Backtab
Backtab ==
    /\ document' = UnindentText.buffer.document
    /\ position' = UnindentText.buffer.position
    /\ anchor' = UnindentText.buffer.anchor
    /\ events' = UnindentText.events
    /\ dispatched' = Dispatch(UnindentText.state, UnindentText.text)
    /\ trace' = Append(trace, Pressed("Backtab", "", TRUE, UnindentText.buffer))
    /\ UNCHANGED <<markupPairs, autoMatchFilter, autoMatchEnabled,
                   hemingwayModeEnabled, tabSettings>>
    /\ ContentsChanged(events')

(***************************************************************************)
(* The list and blockquote slots: insertPrefixForBlocks,                   *)
(* createNumberedList, removeBlockquote and toggleTaskComplete.  Each      *)
(* works on the blocks from the selection's start to its end, or on the    *)
(* cursor's block.                                                         *)
(***************************************************************************)
\* a variant that opens no edit block
Done_NoEditBlock(b, edits) == [buffer |-> b, events |-> Repeat(Edit, edits)]

\* what a slot leaves: the buffer and the edit blocks and edits it made
Done(b, edits) ==
    [buffer |-> b,
     events |-> <<BeginEditBlock>> \o Repeat(Edit, edits) \o <<EndEditBlock>>]

FirstBlock == BlockStart(document, SelectionStart)

Blocks == BlocksCovered(document, SelectionStart, SelectionEnd)

\* insertPrefixForBlocks(prefix)
InsertPrefixForBlocks(prefix) ==
    Done(IndentBlocks(Untouched, FirstBlock, Blocks, prefix), Blocks)

RECURSIVE NumberBlocks(_, _, _, _, _)
\* the loop of createNumberedList over n blocks, the first at offset q
NumberBlocks(b, q, n, number, marker) ==
    LET b1 == InsertInto(b, q, ToDecimal(number) \o <<marker, " ">>)
    IN  IF n = 0 THEN b
        ELSE NumberBlocks(b1, BlockEnd(b1.document, q) + 1, n - 1, number + 1, marker)

\* createNumberedList(marker)
CreateNumberedList(marker) ==
    Done(NumberBlocks(Untouched, FirstBlock, Blocks, 1, marker), Blocks)

\* the number of characters removeBlockquote deletes at the start q of a
\* block: a '>' and the spaces that follow it
UnquotedAt(d, q) == IF CharAt(d, q) = ">" THEN 1 + SpacesAt(d, q + 1) ELSE 0

RECURSIVE UnquoteBlocks(_, _, _)
\* the loop of removeBlockquote over n >= 1 blocks, the first at offset q
UnquoteBlocks(b, q, n) ==
    LET k == UnquotedAt(b.document, q)
        b1 == RemoveFrom(b, q, q + k)
        rest == UnquoteBlocks(b1, BlockEnd(b1.document, q) + 1, n - 1)
    IN  IF n = 1 THEN [buffer |-> b1, deleted |-> k]
        ELSE [rest EXCEPT !.deleted = @ + k]

\* removeBlockquote()
RemoveBlockquoteBlocks ==
    Done(UnquoteBlocks(Untouched, FirstBlock, Blocks).buffer,
         UnquoteBlocks(Untouched, FirstBlock, Blocks).deleted)

\* the block at offset q is a task the loop of toggleTaskComplete toggles
IsTask(d, q) ==
    /\ UserState(BlockText(d, q)) = MarkdownStateBulletPointList
    /\ TaskListMatch(BlockText(d, q)) >= 0

\* the offset of the character in the box of the task at offset q:
\* block.text().indexOf("- [") + 3
BoxAt(d, q) == q + SkipSpaces(BlockText(d, q), 0) + 3

RECURSIVE ToggleBlocks(_, _, _)
\* the loop of toggleTaskComplete over n >= 1 blocks, the first at offset q
ToggleBlocks(b, q, n) ==
    LET d == b.document
        replacement == IF CharAt(d, BoxAt(d, q)) = "x" THEN " " ELSE "x"
        b1 == IF IsTask(d, q)
              THEN InsertInto(RemoveFrom(b, BoxAt(d, q), BoxAt(d, q) + 1),
                              BoxAt(d, q), <<replacement>>)
              ELSE b
        k == IF IsTask(d, q) THEN 2 ELSE 0
        rest == ToggleBlocks(b1, BlockEnd(b1.document, q) + 1, n - 1)
    IN  IF n = 1 THEN [buffer |-> b1, edits |-> k]
        ELSE [rest EXCEPT !.edits = @ + k]

\* toggleTaskComplete()
ToggleTaskCompleteBlocks ==
    Done(ToggleBlocks(Untouched, FirstBlock, Blocks).buffer,
         ToggleBlocks(Untouched, FirstBlock, Blocks).edits)

\* a slot called: the document, the cursor and the history it leaves
Slot(name, arg, done) ==
    /\ document' = done.buffer.document
    /\ position' = done.buffer.position
    /\ anchor' = done.buffer.anchor
    /\ events' = done.events
    /\ dispatched' = NoDispatch
    /\ trace' = Append(trace, Pressed(name, arg, TRUE, done.buffer))
    /\ UNCHANGED <<markupPairs, autoMatchFilter, autoMatchEnabled,
                   hemingwayModeEnabled, tabSettings>>
    /\ ContentsChanged(events')

\* createBulletListWith...Marker(), createTaskList(), createBlockquote()
Prefixes ==
    { <<"*", " ">>, <<"-", " ">>, <<"+", " ">>,
      <<"-", " ", "[", " ", "]", " ">>, <<">", " ">> }

createPrefixedBlocks(prefix) ==
    Slot("insertPrefixForBlocks", prefix, InsertPrefixForBlocks(prefix))

\* createNumberedListWithPeriodMarker(), ...WithParenthesisMarker()
createNumberedList(marker) ==
    Slot("createNumberedList", marker, CreateNumberedList(marker))

removeBlockquote == Slot("removeBlockquote", "", RemoveBlockquoteBlocks)

toggleTaskComplete == Slot("toggleTaskComplete", "", ToggleTaskCompleteBlocks)

(***************************************************************************)
(* The state after construction                                            *)
(***************************************************************************)
Openers == {"\"", "'", "(", "[", "{", "*", "_", GRAVE, "<"}

\* the nine pairs the constructor registers
InitialMarkupPairs ==
    [c \in Openers |->
        CASE c = "(" -> ")"
          [] c = "[" -> "]"
          [] c = "{" -> "}"
          [] c = "<" -> ">"
          [] OTHER -> c]

\* automatching is enabled for each of them
InitialAutoMatchFilter == [c \in Openers |-> TRUE]

\* setTabulationWidth(4) in the constructor
DefaultTabWidth == 4

\* the settings of the Tab key the constructor leaves
ConstructedTabSettings ==
    /\ insertSpacesForTabs = FALSE
    /\ tabWidth = DefaultTabWidth
    /\ bulletPointCyclingEnabled = TRUE

(***************************************************************************)
(* One key pressed in a loaded document.  The first block of the document  *)
(* is one of the lines below: an indentation, a marker and a content, or   *)
(* a line of plain text; it stands alone or is followed by a second block. *)
(***************************************************************************)
Indents == {<<>>, <<" ">>, <<" ", "\t">>}

Markers ==
    { <<>>,
      <<"2", ".", " ">>, <<"9", ")", " ", " ">>, <<"1", "9", ".", " ">>,
      <<"0", "7", ")", "\t">>,
      <<"2", "1", "4", "7", "4", "8", "3", "6", "4", "7", ".", " ">>,
      <<"2", "1", "4", "7", "4", "8", "3", "6", "4", "8", ".", " ">>,
      <<"-", " ">>, <<"*", " ">>, <<"+", "\t", " ">>,
      <<"-", " ", "[", "x", "]", " ">>, <<"-", " ", "[", " ", "]", " ", " ">>,
      <<">", " ">>, <<">">>, <<">", " ", ">", " ">>, <<" ", " ", ">", " ">> }

Contents == {<<>>, <<"a">>, <<"x", "1">>}

PlainLines ==
    { <<"a", "b">>, <<"(", ")">>, <<"(", "a">>, <<"a", "(", ")", "b">>,
      <<"*", "*">>, <<"<", ">">>, <<"(", "]">>, <<"a", ")">>, <<" ", "\"", "\"">>,
      <<"w", "o", "r", "d">> }

Lines ==
    {i \o m \o c : i \in Indents, m \in Markers, c \in Contents} \cup PlainLines

Documents == Lines \cup {l \o <<"\n", "b">> : l \in Lines}

InitKey ==
    /\ document \in Documents
    /\ position \in 0..Len(document)
    /\ anchor \in {position, 0, Len(document)}
    /\ markupPairs = InitialMarkupPairs
    /\ autoMatchFilter = InitialAutoMatchFilter
    /\ autoMatchEnabled \in BOOLEAN
    /\ hemingwayModeEnabled \in BOOLEAN
    /\ ConstructedTabSettings
    /\ events = <<>>
    /\ ConstructedTyping
    /\ dispatched = NoDispatch
    /\ trace = <<>>

NextKey ==
    /\ trace = <<>>
    /\ \/ \E shift \in BOOLEAN, ctrl \in BOOLEAN : Return(shift, ctrl)
       \/ Backspace
       \/ bold
       \/ italic
       \/ strikethrough

SpecKey == InitKey /\ [][NextKey]_vars

(***************************************************************************)
(* Characters typed one after the other, with any selection and any        *)
(* setting of the auto-match switches.                                     *)
(***************************************************************************)
MaxKeys == 2

TypedCharacters == Openers \cup {")", "]", "}", ">", "a"}

TypeDocuments ==
    { <<>>, <<"a", "b">>, <<"a", "\n", "b">>, <<"a", "*">>, <<"\"", "a">>,
      <<"(", ")">>, <<"-", " ", ">">> }

AutoMatchFilters ==
    {InitialAutoMatchFilter} \cup
    {[InitialAutoMatchFilter EXCEPT ![c] = FALSE] : c \in {"(", "*"}}

InitType ==
    /\ document \in TypeDocuments
    /\ position \in 0..Len(document)
    /\ anchor \in 0..Len(document)
    /\ markupPairs = InitialMarkupPairs
    /\ autoMatchFilter \in AutoMatchFilters
    /\ autoMatchEnabled \in BOOLEAN
    /\ hemingwayModeEnabled = FALSE
    /\ ConstructedTabSettings
    /\ events = <<>>
    /\ ConstructedTyping
    /\ dispatched = NoDispatch
    /\ trace = <<>>

NextType == Len(trace) < MaxKeys /\ \E ch \in TypedCharacters : TypeCharacter(ch)

SpecType == InitType /\ [][NextType]_vars

(***************************************************************************)
(* Tab and Shift+Tab pressed one after the other in a loaded document of   *)
(* up to three lines, with any selection and any setting of the Tab key.   *)
(***************************************************************************)
MaxTabs == 2

TabWidths == {2, 4}

TabIndents == {<<>>, <<" ">>, <<"\t">>, <<" ", " ", " ">>, <<" ", "\t">>}

TabMarkers ==
    { <<>>, <<"*", " ">>, <<"-", " ", " ">>, <<"+", "\t">>,
      <<"7", ".", " ">>, <<"1", "2", ")", " ", " ">>,
      <<"-", " ", "[", "x", "]", " ">>, <<">", " ">> }

TabContents == {<<>>, <<"a", " ", "*">>}

TabLines == {i \o m \o c : i \in TabIndents, m \in TabMarkers, c \in TabContents}

\* the lines that are an indentation and a marker only
TabItems == {i \o m : i \in TabIndents, m \in TabMarkers}

TabDocuments ==
    TabLines
        \cup {l \o <<"\n", "*", " ">> : l \in TabItems}
        \cup {<<" ", " ", "b", "\n">> \o l : l \in TabItems}
        \cup {<<"\t", "a", "\n", " ", "b", "\n", " ", " ", " ", "-", " ">>}

InitTab ==
    /\ document \in TabDocuments
    /\ position \in 0..Len(document)
    /\ anchor \in {position, 0, Len(document)}
    /\ markupPairs = InitialMarkupPairs
    /\ autoMatchFilter = InitialAutoMatchFilter
    /\ autoMatchEnabled = TRUE
    /\ hemingwayModeEnabled = FALSE
    /\ insertSpacesForTabs \in BOOLEAN
    /\ tabWidth \in TabWidths
    /\ bulletPointCyclingEnabled \in BOOLEAN
    /\ events = <<>>
    /\ ConstructedTyping
    /\ dispatched = NoDispatch
    /\ trace = <<>>

NextTab == Len(trace) < MaxTabs /\ (Tab \/ Backtab)

SpecTab == InitTab /\ [][NextTab]_vars

(***************************************************************************)
(* One operation on the blocks of a loaded document: Tab, Shift+Tab or one *)
(* of the list and blockquote slots.                                       *)
(***************************************************************************)
NextBlocks ==
    /\ trace = <<>>
    /\ \/ Tab
       \/ Backtab
       \/ \E prefix \in Prefixes : createPrefixedBlocks(prefix)
       \/ \E marker \in {".", ")"} : createNumberedList(marker)
       \/ removeBlockquote
       \/ toggleTaskComplete

SpecBlocks == InitTab /\ [][NextBlocks]_vars

(***************************************************************************)
(* An editing session: characters, Backspace, Enter, Tab and selections    *)
(* with Shift+Home and Shift+End, one after the other, in an editor as     *)
(* constructed.                                                            *)
(***************************************************************************)
MaxEdits == 3

EditCharacters == {"(", "*", ")", "a", "b"}

EditDocuments == {<<"a", "b">>, <<"(", ")">>, <<"a", "\n", "*", " ">>}

InitEdit ==
    /\ document \in EditDocuments
    /\ position \in 0..Len(document)
    /\ anchor = position
    /\ markupPairs = InitialMarkupPairs
    /\ autoMatchFilter = InitialAutoMatchFilter
    /\ autoMatchEnabled = TRUE
    /\ hemingwayModeEnabled = FALSE
    /\ ConstructedTabSettings
    /\ events = <<>>
    /\ ConstructedTyping
    /\ dispatched = NoDispatch
    /\ trace = <<>>

NextEdit ==
    /\ Len(trace) < MaxEdits
    /\ \/ \E ch \in EditCharacters : TypeCharacter(ch)
       \/ Backspace
       \/ Return(FALSE, FALSE)
       \/ Tab
       \/ \E toEnd \in BOOLEAN : ShiftMove(toEnd)

SpecEdit == InitEdit /\ [][NextEdit]_vars

(***************************************************************************)
(* Text changes and ticks of the typing timer in any order, in an editor   *)
(* as constructed: characters typed into the document, changes of the text *)
(* from elsewhere, and timeouts.                                           *)
(***************************************************************************)
MaxSignals == 4

InitTyping ==
    /\ document \in {<<>>, <<"(", ")">>}
    /\ position \in 0..Len(document)
    /\ anchor = position
    /\ markupPairs = InitialMarkupPairs
    /\ autoMatchFilter = InitialAutoMatchFilter
    /\ autoMatchEnabled = TRUE
    /\ hemingwayModeEnabled = FALSE
    /\ ConstructedTabSettings
    /\ events = <<>>
    /\ ConstructedTyping
    /\ dispatched = NoDispatch
    /\ trace = <<>>

NextTyping ==
    /\ Len(signals) < MaxSignals
    /\ \/ Len(trace) < MaxKeys /\ \E ch \in {"a", ")"} : TypeCharacter(ch)
       \/ onTextChanged
       \/ checkIfTypingPaused

SpecTyping == InitTyping /\ [][NextTyping]_vars

(***************************************************************************)
(* One of the keys that dispatch on the state of the cursor's block:       *)
(* Enter, Backspace, Tab or Shift+Tab in a loaded document.                *)
(***************************************************************************)
NextDispatch ==
    /\ trace = <<>>
    /\ \/ \E shift \in BOOLEAN, ctrl \in BOOLEAN : Return(shift, ctrl)
       \/ Backspace
       \/ Tab
       \/ Backtab

SpecDispatch == InitTab /\ [][NextDispatch]_vars

(***************************************************************************)
(* Vocabulary of the properties.  The last key pressed and the state it    *)
(* was pressed in; the shape of a line, stated by its parts.               *)
(***************************************************************************)
Last == trace[Len(trace)]

\* the text of the cursor's line, and the cursor's column, when the last key
\* was pressed
PreText == BlockText(Last.document, Last.position)

PreColumn == PositionInBlock(Last.document, Last.position)

NoSelectionBefore == Last.anchor = Last.position

\* s[i..j], 1-based and inclusive
Part(s, i, j) == SubSeq(s, i, j)

AllSpaces(s, i, j) == \A k \in i..j : s[k] \in {" ", "\t"}

AllDigits(s, i, j) == \A k \in i..j : \E v \in 1..10 : Digits[v] = s[k]

\* the whitespace that ends at n is not followed by more
EndsRun(s, n) == n = Len(s) \/ s[n + 1] \notin {" ", "\t"}

\* the number of whitespace characters s starts with
LeadingSpace(s) == CHOOSE n \in 0..Len(s) : AllSpaces(s, 1, n) /\ EndsRun(s, n)

\* s[1..n] is a numbered-list marker prefix: a whitespace characters,
\* digits up to b, '.' or ')', whitespace up to n
NumberedPrefix(s, a, b, n) ==
    /\ a < b /\ b + 2 <= n /\ n <= Len(s)
    /\ AllSpaces(s, 1, a) /\ AllDigits(s, a + 1, b)
    /\ s[b + 1] \in {".", ")"}
    /\ AllSpaces(s, b + 2, n) /\ EndsRun(s, n)

\* s[1..n] is a bullet-list marker prefix: a whitespace characters, the
\* bullet, whitespace up to n
BulletPrefix(s, a, n) ==
    /\ a + 2 <= n /\ n <= Len(s)
    /\ AllSpaces(s, 1, a)
    /\ s[a + 1] \in {"+", "*", "-"}
    /\ AllSpaces(s, a + 2, n) /\ EndsRun(s, n)

\* s[1..n] is a task-list marker prefix: a whitespace characters, "- [x]"
\* or "- [ ]", whitespace up to n
TaskPrefix(s, a, n) ==
    /\ a + 6 <= n /\ n <= Len(s)
    /\ AllSpaces(s, 1, a)
    /\ Part(s, a + 1, a + 5) \in {<<"-", " ", "[", "x", "]">>, <<"-", " ", "[", " ", "]">>}
    /\ AllSpaces(s, a + 6, n) /\ EndsRun(s, n)

\* s[1..n] is a blockquote marker prefix: k <= 3 spaces, a '>', and then
\* '>' characters and whitespace up to n
QuotePrefix(s, k, n) ==
    /\ k <= 3 /\ k < n /\ n <= Len(s)
    /\ \A i \in 1..k : s[i] = " "
    /\ s[k + 1] = ">"
    /\ \A i \in (k + 1)..n : s[i] \in {">", " ", "\t"}
    /\ (n = Len(s) \/ s[n + 1] \notin {">", " ", "\t"})

Columns == 0..Len(PreText)

RECURSIVE Increment(_)
\* the decimal digits of the number after the one ds writes
Increment(ds) ==
    IF ds = <<>> THEN <<"1">>
    ELSE IF ds[Len(ds)] = "9" THEN Increment(SubSeq(ds, 1, Len(ds) - 1)) \o <<"0">>
    ELSE SubSeq(ds, 1, Len(ds) - 1) \o <<Digits[DigitValue(ds[Len(ds)]) + 2]>>

RECURSIVE StripZeros(_)
StripZeros(ds) ==
    IF Len(ds) > 1 /\ ds[1] = "0" THEN StripZeros(Tail(ds)) ELSE ds

\* the decimal form of (the number ds writes) + 1
DecimalSuccessor(ds) == Increment(StripZeros(ds))

\* Enter without modifiers and without selection
PlainEnter ==
    trace # <<>> /\ Last.key = "Return" /\ Last.arg = "" /\ NoSelectionBefore

EnterAtEnd == PlainEnter /\ PreColumn = Len(PreText)

\* the last key left the text before and after the cursor as they were and
\* put s between them
Inserted(s) == document = InsertText(Last.document, Last.position, s)

\* the last key replaced the cursor's line by the two lines first and second
SplitInto(first, second) ==
    document = StrLeft(Last.document, BlockStart(Last.document, Last.position))
                   \o first \o <<"\n">> \o second
                   \o StrMid(Last.document, BlockEnd(Last.document, Last.position))

(***************************************************************************)
(* C1: Enter at the end of a numbered-list line with item content leaves   *)
(* the line unchanged and creates a new line that is the line's marker     *)
(* prefix with the digits replaced by the decimal form of the number + 1.  *)
(***************************************************************************)
C1_EnterIncrementsNumber ==
    EnterAtEnd =>
        \A a \in Columns, b \in Columns, n \in Columns :
            NumberedPrefix(PreText, a, b, n) /\ n < Len(PreText) =>
                SplitInto(PreText,
                          Part(PreText, 1, a)
                              \o DecimalSuccessor(Part(PreText, a + 1, b))
                              \o Part(PreText, b + 1, n))

\* C1 restricted to numbers below INT_MAX, which the code increments
C1_Below ==
    EnterAtEnd =>
        \A a \in Columns, b \in Columns, n \in Columns :
            /\ NumberedPrefix(PreText, a, b, n)
            /\ n < Len(PreText)
            /\ b - a < 10
            => SplitInto(PreText,
                         Part(PreText, 1, a)
                             \o DecimalSuccessor(Part(PreText, a + 1, b))
                             \o Part(PreText, b + 1, n))

(***************************************************************************)
(* C2: Enter at the end of a numbered, bullet or task list line that is    *)
(* exactly its marker prefix ends the list: the line keeps only its        *)
(* leading whitespace and the new line is empty.                           *)
(***************************************************************************)
EmptyItem(s, a) ==
    \/ \E b \in 0..Len(s) : NumberedPrefix(s, a, b, Len(s))
    \/ BulletPrefix(s, a, Len(s))
    \/ TaskPrefix(s, a, Len(s))

C2_EnterEndsList ==
    EnterAtEnd =>
        \A a \in Columns :
            EmptyItem(PreText, a) => SplitInto(Part(PreText, 1, a), <<>>)

C2_Witness ==
    /\ EnterAtEnd
    /\ \E a \in Columns : a > 0 /\ TaskPrefix(PreText, a, Len(PreText))
    /\ BlockText(document, 0) = <<" ">>

(***************************************************************************)
(* C3: Enter at the end of a task-list line with item content creates a    *)
(* new line that is the task prefix with the box unchecked.                *)
(***************************************************************************)
C3_EnterUnchecksTask ==
    EnterAtEnd =>
        \A a \in Columns, n \in Columns :
            TaskPrefix(PreText, a, n) /\ n < Len(PreText) =>
                SplitInto(PreText,
                          Part(PreText, 1, a) \o <<"-", " ", "[", " ", "]">>
                              \o Part(PreText, a + 6, n))

C3_Witness ==
    /\ EnterAtEnd
    /\ \E a \in Columns, n \in Columns :
          /\ TaskPrefix(PreText, a, n) /\ n < Len(PreText)
          /\ PreText[a + 4] = "x"
          /\ "x" \in {PreText[i] : i \in (n + 1)..Len(PreText)}

(***************************************************************************)
(* C4: Enter at the end of a blockquote line, with or without quoted       *)
(* content, leaves the line unchanged and creates a new line that is the   *)
(* line's blockquote marker prefix.                                        *)
(***************************************************************************)
C4_EnterContinuesQuote ==
    EnterAtEnd =>
        \A k \in Columns, n \in Columns :
            QuotePrefix(PreText, k, n) => SplitInto(PreText, Part(PreText, 1, n))

C4_Witness ==
    /\ EnterAtEnd
    /\ \E k \in Columns : QuotePrefix(PreText, k, Len(PreText))
    /\ Len(PreText) >= 4

(***************************************************************************)
(* C5: Enter at a column c before the end of the line's text inserts a     *)
(* newline and the first min(c, leading whitespace) characters of the      *)
(* line, whatever the line is.                                             *)
(***************************************************************************)
C5_EnterMidLine ==
    PlainEnter /\ PreColumn < Len(PreText) =>
        Inserted(<<"\n">> \o Part(PreText, 1, Min(PreColumn, LeadingSpace(PreText))))

C5_Witness ==
    /\ PlainEnter
    /\ PreColumn > 0 /\ PreColumn < LeadingSpace(PreText)
    /\ \E a \in Columns, n \in Columns : BulletPrefix(PreText, a, n)
    /\ Len(document) = Len(Last.document) + 1 + PreColumn

(***************************************************************************)
(* C6: with no selection, auto-match enabled and the opener's flag         *)
(* enabled, typing an opener and then its closer leaves exactly one        *)
(* inserted pair at the original cursor position and the cursor after it:  *)
(* the first key inserts both characters with the cursor between them,     *)
(* the second only moves the cursor; for every registered pair.            *)
(***************************************************************************)
First == trace[Len(trace) - 1]

\* the last two keys typed the opener o and then its closer, the first in a
\* state with no selection and automatching enabled for o
OpenThenClose(o) ==
    /\ Len(trace) >= 2
    /\ First.key = "Character" /\ First.arg = o
    /\ Last.key = "Character" /\ Last.arg = InitialMarkupPairs[o]
    /\ First.anchor = First.position
    /\ First.autoMatchEnabled
    /\ o \in DOMAIN First.autoMatchFilter /\ First.autoMatchFilter[o]

OnePairInserted(o) ==
    /\ Last.document = InsertText(First.document, First.position,
                                  <<o, InitialMarkupPairs[o]>>)
    /\ Last.position = First.position + 1
    /\ Last.anchor = Last.position
    /\ document = Last.document
    /\ position = First.position + 2
    /\ anchor = position

StartBefore == Min(Last.anchor, Last.position)

EndBefore == Max(Last.anchor, Last.position)

SelectedBefore == SubSeq(Last.document, StartBefore + 1, EndBefore)

WithinOneLine == \A i \in 1..Len(SelectedBefore) : SelectedBefore[i] # "\n"

\* the selected text stands between opening and closing, and is selected
Wrapped(opening, closing) ==
    /\ document = StrLeft(Last.document, StartBefore) \o opening \o SelectedBefore
                      \o closing \o StrMid(Last.document, EndBefore)
    /\ SelectionStart = StartBefore + Len(opening)
    /\ SelectionEnd = EndBefore + Len(opening)

C7_WrapSelection ==
    \A o \in Openers :
        trace # <<>> /\ Last.key = "Character" /\ Last.arg = o /\ ~NoSelectionBefore =>
            IF WithinOneLine
            THEN Last.handled = "pair" /\ Wrapped(<<o>>, <<InitialMarkupPairs[o]>>)
            ELSE Last.handled = "no"

C7_Witness ==
    /\ trace # <<>> /\ Last.key = "Character" /\ Last.arg = "("
    /\ Last.anchor > Last.position
    /\ ~Last.autoMatchEnabled
    /\ WithinOneLine
    /\ Wrapped(<<"(">>, <<")">>)

(***************************************************************************)
(* C8: bold, italic or strikethrough with a non-empty selection inserts    *)
(* the markup before and after the selected text and leaves the selection  *)
(* on exactly the original text, whether the selection was made forwards   *)
(* or backwards.                                                           *)
(***************************************************************************)
C8_FormatKeepsSelection ==
    trace # <<>> /\ Last.key = "Format" /\ ~NoSelectionBefore =>
        Wrapped(Last.arg, Last.arg)

\* C8 for the selections made forwards, which the code handles
C8_Forwards ==
    trace # <<>> /\ Last.key = "Format" /\ Last.anchor < Last.position =>
        Wrapped(Last.arg, Last.arg)

(***************************************************************************)
(* C9: on a list line with item content, with no selection and the cursor  *)
(* at the end of the line, one Backspace removes the entire structural     *)
(* prefix and leaves the item content.                                     *)
(***************************************************************************)
\* Backspace with Hemingway mode off and no selection
PlainBackspace ==
    /\ trace # <<>> /\ Last.key = "Backspace"
    /\ ~Last.hemingwayModeEnabled
    /\ NoSelectionBefore

\* s[1..n] is the structural prefix of the list line s, a its indentation
ListPrefix(s, a, n) ==
    \/ \E b \in 0..Len(s) : NumberedPrefix(s, a, b, n)
    \/ TaskPrefix(s, a, n)
    \/ BulletPrefix(s, a, n) /\ ~\E m \in 0..Len(s) : TaskPrefix(s, a, m)

LineStartBefore == BlockStart(Last.document, Last.position)

C9_BackspaceLeavesContent ==
    PlainBackspace /\ PreColumn = Len(PreText) =>
        \A a \in Columns, n \in Columns :
            ListPrefix(PreText, a, n) /\ n < Len(PreText) =>
                document \in {RemoveText(Last.document, LineStartBefore, LineStartBefore + n),
                              RemoveText(Last.document, LineStartBefore + a,
                                         LineStartBefore + n)}

\* C9 as amended: the marker is removed in one step from an empty item only,
\* leaving the indentation; on an item with content the engine does not
\* handle the key and the character before the cursor is deleted
C9_BackspaceEmptyItem ==
    PlainBackspace /\ PreColumn = Len(PreText) =>
        \A a \in Columns, n \in Columns :
            ListPrefix(PreText, a, n) =>
                IF n = Len(PreText)
                THEN /\ Last.handled
                     /\ document = RemoveText(Last.document, LineStartBefore + a,
                                              LineStartBefore + n)
                ELSE /\ ~Last.handled
                     /\ Last.engine = Buffer(Last.document, Last.position, Last.anchor)
                     /\ document = RemoveText(Last.document, Last.position - 1,
                                              Last.position)

C9_Witness ==
    /\ PlainBackspace /\ PreColumn = Len(PreText)
    /\ PreText = <<" ", "-", " ", "[", "x", "]", " ">>
    /\ Last.handled
    /\ BlockText(document, position) = <<" ">>

(***************************************************************************)
(* C10: on a line that is no list item and no blockquote, with no          *)
(* selection, the engine handles Backspace, deleting the character before  *)
(* and the character after the cursor, if and only if auto-matching is     *)
(* enabled, the character before the cursor is one of the nine openers and *)
(* the character after it is its closer; otherwise it returns false and    *)
(* leaves buffer and cursor unchanged.                                     *)
(***************************************************************************)
PlainLine(s) ==
    /\ ~\E a \in 0..Len(s), b \in 0..Len(s), n \in 0..Len(s) : NumberedPrefix(s, a, b, n)
    /\ ~\E a \in 0..Len(s), n \in 0..Len(s) : BulletPrefix(s, a, n) \/ TaskPrefix(s, a, n)
    /\ ~\E k \in 0..Len(s), n \in 0..Len(s) : QuotePrefix(s, k, n)

\* the cursor stands between an opener and its closer
InsidePair ==
    /\ PreColumn > 0 /\ PreColumn < Len(PreText)
    /\ PreText[PreColumn] \in Openers
    /\ PreText[PreColumn + 1] = InitialMarkupPairs[PreText[PreColumn]]

PairCollapsed ==
    /\ (Last.handled <=> Last.autoMatchEnabled /\ InsidePair)
    /\ Last.handled =>
           document = RemoveText(Last.document, Last.position - 1, Last.position + 1)
    /\ ~Last.handled =>
           Last.engine = Buffer(Last.document, Last.position, Last.anchor)

C10_BackspaceCollapsesPair ==
    PlainBackspace /\ PlainLine(PreText) => PairCollapsed

\* C10 for a cursor before the end of the line, where the code agrees
C10_BeforeEnd ==
    PlainBackspace /\ PlainLine(PreText) /\ PreColumn < Len(PreText) => PairCollapsed

(***************************************************************************)
(* Vocabulary of the Tab properties.                                       *)
(***************************************************************************)
\* the text of the line the cursor is in
LineNow == BlockText(document, position)

\* the text of the cursor's line when the key k was pressed
LineAt(k) == BlockText(k.document, k.position)

\* the first character of s after its leading whitespace
Marker(s) == CharAt(s, LeadingSpace(s))

\* the indent unit under the settings the key k was pressed with
UnitOf(k) == IF k.insertSpacesForTabs THEN [i \in 1..k.tabWidth |-> " "] ELSE <<"\t">>

\* k was pressed without selection, with cycling enabled, on a bullet line
\* with marker '*'
OnStarBullet(k) ==
    /\ k.anchor = k.position
    /\ k.bulletPointCyclingEnabled
    /\ \E a \in 0..Len(LineAt(k)), n \in 0..Len(LineAt(k)) :
          BulletPrefix(LineAt(k), a, n) /\ LineAt(k)[a + 1] = "*"

\* the line k was pressed on is exactly its bullet prefix
OnEmptyBullet(k) ==
    \E a \in 0..Len(LineAt(k)) : BulletPrefix(LineAt(k), a, Len(LineAt(k)))

CoveredFrom == BlockStart(Last.document, StartBefore)

CoveredTo == BlockEnd(Last.document, EndBefore)

CoveredBefore == SubSeq(Last.document, CoveredFrom + 1, CoveredTo)

RECURSIVE AfterEachNewline(_, _)
\* s with unit put after each of its line breaks
AfterEachNewline(s, unit) ==
    IF s = <<>> THEN <<>>
    ELSE IF Head(s) = "\n" THEN <<"\n">> \o unit \o AfterEachNewline(Tail(s), unit)
    ELSE <<Head(s)>> \o AfterEachNewline(Tail(s), unit)

C12_TabIndentsSelection ==
    trace # <<>> /\ Last.key = "Tab" /\ ~NoSelectionBefore =>
        document = StrLeft(Last.document, CoveredFrom)
                       \o UnitOf(Last) \o AfterEachNewline(CoveredBefore, UnitOf(Last))
                       \o StrMid(Last.document, CoveredTo)

C12_Witness ==
    /\ trace # <<>> /\ Last.key = "Tab" /\ ~NoSelectionBefore
    /\ Last.insertSpacesForTabs
    /\ Last.document = <<"\t", "a", "\n", " ", "b", "\n", " ", " ", " ", "-", " ">>
    /\ StartBefore = 0 /\ EndBefore = 5
    /\ Len(document) = Len(Last.document) + 2 * Last.tabWidth

(***************************************************************************)
(* C13: Shift+Tab with a selection changes each covered line only by       *)
(* removing one leading tab, or else up to tabWidth leading spaces; no     *)
(* bullet marker is rotated and the other lines are unchanged.             *)
(***************************************************************************)
\* the number of spaces s starts with
LeadingBlanks(s) ==
    CHOOSE n \in 0..Len(s) :
        /\ \A i \in 1..n : s[i] = " "
        /\ (n = Len(s) \/ s[n + 1] # " ")

\* the line without one leading tab, or else without up to w leading spaces
Outdented(line, w) ==
    IF line # <<>> /\ line[1] = "\t" THEN Tail(line)
    ELSE SubSeq(line, Min(w, LeadingBlanks(line)) + 1, Len(line))

\* the length of the first line of s
FirstLineLength(s) ==
    CHOOSE n \in 0..Len(s) :
        /\ \A i \in 1..n : s[i] # "\n"
        /\ (n = Len(s) \/ s[n + 1] = "\n")

RECURSIVE OutdentedLines(_, _)
\* every line of s outdented
OutdentedLines(s, w) ==
    LET n == FirstLineLength(s)
    IN  IF n = Len(s) THEN Outdented(s, w)
        ELSE Outdented(SubSeq(s, 1, n), w) \o <<"\n">>
                 \o OutdentedLines(SubSeq(s, n + 2, Len(s)), w)

OutdentedSelection ==
    document = StrLeft(Last.document, CoveredFrom)
                   \o OutdentedLines(CoveredBefore, Last.tabWidth)
                   \o StrMid(Last.document, CoveredTo)

C13_BacktabOutdentsSelection ==
    trace # <<>> /\ Last.key = "Backtab" /\ ~NoSelectionBefore => OutdentedSelection

\* C13 with bullet-point cycling disabled, where the code agrees
C13_CyclingDisabled ==
    /\ trace # <<>> /\ Last.key = "Backtab" /\ ~NoSelectionBefore
    /\ ~Last.bulletPointCyclingEnabled
    => OutdentedSelection

(***************************************************************************)
(* C14: indent, outdent, prefix insertion, numbered-list creation,         *)
(* blockquote removal and task toggle each make all their changes of the   *)
(* document inside exactly one edit block, opened first and closed last,   *)
(* and leave no edit block open.                                           *)
(***************************************************************************)
StructuralOperations ==
    {"Tab", "Backtab", "insertPrefixForBlocks", "createNumberedList",
     "removeBlockquote", "toggleTaskComplete"}

\* the number of edit blocks open after the first i events of ev
DepthAfter(ev, i) ==
    Cardinality({j \in 1..i : ev[j] = BeginEditBlock})
        - Cardinality({j \in 1..i : ev[j] = EndEditBlock})

OneTransaction(ev) ==
    /\ Len(ev) >= 2
    /\ ev[1] = BeginEditBlock
    /\ ev[Len(ev)] = EndEditBlock
    /\ \A i \in 1..(Len(ev) - 1) : DepthAfter(ev, i) = 1
    /\ DepthAfter(ev, Len(ev)) = 0

C14_OneTransaction ==
    trace # <<>> /\ Last.key \in StructuralOperations => OneTransaction(events)

C14_Witness ==
    /\ trace # <<>> /\ Last.key = "createNumberedList" /\ Last.arg = ")"
    /\ events = <<BeginEditBlock, Edit, Edit, EndEditBlock>>
    /\ OneTransaction(events)
    /\ document = <<"1", ")", " ", "\t", "a", "\n", "2", ")", " ", " ", "b", "\n",
                    " ", " ", " ", "-", " ">>

(***************************************************************************)
(* C15: the block state on which Enter, Tab, Shift+Tab and Backspace       *)
(* dispatch is the class of the text the cursor's line has when the state  *)
(* is read, whatever the other lines of the document are and whatever the  *)
(* line's text was before the key changed it.  Shift+Tab reads the state   *)
(* only to tell a bullet or task item from every other line, after it has  *)
(* removed the leading whitespace.                                         *)
(***************************************************************************)
\* the class of a line by its text: blockquote, numbered list, task or
\* bullet list, or else plain text
ClassOf(s) ==
    LET a == LeadingSpace(s)
    IN  IF \E k \in 0..3, n \in 1..Len(s) : QuotePrefix(s, k, n)
        THEN MarkdownStateBlockquote
        ELSE IF \E b \in (a + 1)..Len(s), n \in (a + 3)..Len(s) : NumberedPrefix(s, a, b, n)
        THEN MarkdownStateNumberedList
        ELSE IF \E n \in (a + 2)..Len(s) : TaskPrefix(s, a, n) \/ BulletPrefix(s, a, n)
        THEN MarkdownStateBulletPointList
        ELSE MarkdownStateParagraph

\* the text of the cursor's line when the last key read the block's state
LineRead ==
    IF Last.key = "Backtab"
    THEN Outdented(BlockText(Last.document, EndBefore), Last.tabWidth)
    ELSE IF Last.key = "Return" /\ Last.arg = "Shift"
    THEN BlockText(InsertText(Last.document, Last.position, <<" ", " ">>), Last.position)
    ELSE PreText

C16_DelimiterTableFixed ==
    /\ markupPairs = InitialMarkupPairs
    /\ DOMAIN markupPairs = Openers
    /\ \A i \in 1..Len(trace) :
           trace[i].key = "Character" /\ trace[i].arg \notin Openers
               => trace[i].handled # "pair"

\* a character that is no opener has wrapped a selection
C16_NonOpenerWraps ==
    /\ trace # <<>> /\ Last.key = "Character" /\ Last.arg \notin Openers
    /\ ~NoSelectionBefore
    /\ Last.handled = "pair"

(***************************************************************************)
(* C17: every Enter that the continuation engine handles, the one that     *)
(* ends a list included, changes the buffer as one edit transaction: a     *)
(* single edit, or several edits inside one edit block.                    *)
(***************************************************************************)
C17_EnterOneTransaction ==
    /\ trace # <<>> /\ Last.key = "Return"
    /\ NoSelectionBefore /\ Last.arg \in {"", "Shift"}
    => events = <<Edit>> \/ OneTransaction(events)

\* the unmodified Enter key has ended a list with two edits and no edit block
C17_ListEndedInTwoEdits ==
    /\ trace # <<>> /\ Last.key = "Return" /\ Last.arg = ""
    /\ Last.document = <<"*", " ">> /\ Last.position = 2 /\ NoSelectionBefore
    /\ document = <<"\n">>
    /\ events = <<Edit, Edit>>

(***************************************************************************)
(* C18: Tab without selection on a line that is, as a whole, a numbered-   *)
(* list marker (whitespace, digits, '.' or ')', whitespace) leaves, for    *)
(* any column of the cursor, the line as one indent unit, the original     *)
(* leading whitespace, the number 1, the original punctuation and the      *)
(* original trailing whitespace; the other lines are unchanged.            *)
(***************************************************************************)
\* the document before and after the line the last key was pressed on
LinesBefore == SubSeq(Last.document, 1, BlockStart(Last.document, Last.position))

LinesAfter ==
    SubSeq(Last.document, BlockEnd(Last.document, Last.position) + 1, Len(Last.document))

C18_TabRestartsNumber ==
    trace # <<>> /\ Last.key = "Tab" /\ NoSelectionBefore
    => \A a \in {LeadingSpace(PreText)}, b \in 1..Len(PreText) :
           NumberedPrefix(PreText, a, b, Len(PreText))
           => document = LinesBefore \o UnitOf(Last) \o Part(PreText, 1, a) \o <<"1">>
                             \o Part(PreText, b + 1, Len(PreText)) \o LinesAfter

C18_Witness ==
    /\ trace # <<>> /\ Last.key = "Tab" /\ NoSelectionBefore
    /\ Last.insertSpacesForTabs /\ Last.tabWidth = 2
    /\ PreText = <<" ", "\t", "1", "2", ")", " ", " ">> /\ PreColumn = 3
    /\ LinesBefore # <<>>
    /\ LineNow = <<" ", " ", " ", "\t", "1", ")", " ", " ">>

(***************************************************************************)
(* C19: when Tab or Shift+Tab changes the bullet marker of a line, Tab     *)
(* takes '*' to '-', '-' to '+' and '+' to '*', and Shift+Tab takes '*' to *)
(* '+', '+' to '-' and '-' to '*', each the inverse of the other; with     *)
(* bullet-point cycling disabled no marker changes.                        *)
(***************************************************************************)
Bullets == {"*", "-", "+"}

IndentMap == ("*" :> "-") @@ ("-" :> "+") @@ ("+" :> "*")

OutdentMap == ("*" :> "+") @@ ("+" :> "-") @@ ("-" :> "*")

\* the number of lines of d after its first
NewlinesOf(d) == Cardinality({i \in 1..Len(d) : d[i] = "\n"})

\* the text of line k of d, the first line being line 0
TextOfLine(d, k) ==
    IF k = 0 THEN BlockText(d, 0)
    ELSE BlockText(d, CHOOSE q \in 1..Len(d) :
                          d[q] = "\n" /\ Cardinality({i \in 1..q : d[i] = "\n"}) = k)

\* line k was a bullet or task item when the last key was pressed
BulletLineBefore(k) ==
    LET line == TextOfLine(Last.document, k)
    IN  \E n \in 2..Len(line) : BulletPrefix(line, LeadingSpace(line), n)

C19_RotationMaps ==
    /\ \A c \in Bullets : OutdentMap[IndentMap[c]] = c /\ IndentMap[OutdentMap[c]] = c
    /\ trace # <<>> /\ Last.key \in {"Tab", "Backtab"}
       => /\ NewlinesOf(document) = NewlinesOf(Last.document)
          /\ \A k \in 0..NewlinesOf(Last.document) :
                 BulletLineBefore(k)
                 => LET old == Marker(TextOfLine(Last.document, k))
                        new == Marker(TextOfLine(document, k))
                    IN  \/ new = old
                        \/ /\ Last.bulletPointCyclingEnabled
                           /\ new = IF Last.key = "Tab" THEN IndentMap[old]
                                    ELSE OutdentMap[old]

\* Tab has taken '+' to '*' and Shift+Tab has taken it back
C19_Witness ==
    /\ Len(trace) = 2 /\ trace[1].key = "Tab" /\ Last.key = "Backtab"
    /\ trace[1].anchor = trace[1].position /\ NoSelectionBefore
    /\ Marker(LineAt(trace[1])) = "+"
    /\ Marker(LineAt(Last)) = "*"
    /\ Marker(LineNow) = "+"

(***************************************************************************)
(* C20: Tab without selection on a line that is no numbered, bullet or     *)
(* task item, with the cursor at column c and tab width w > 0, inserts at  *)
(* the cursor w - (c mod w) spaces, between 1 and w of them, which takes   *)
(* the cursor to a column that is a multiple of w, when spaces are         *)
(* inserted for tabs, and one tab character otherwise; nothing else        *)
(* changes.                                                                *)
(***************************************************************************)
\* the spaces that take column c to the next multiple of w
ToNextTabStop(c, w) == [i \in 1..(w - (c % w)) |-> " "]

\* s inserted into the document of the last key at its cursor
InsertedAtCursor(s) ==
    SubSeq(Last.document, 1, Last.position) \o s
        \o SubSeq(Last.document, Last.position + 1, Len(Last.document))

C20_TabToNextStop ==
    /\ trace # <<>> /\ Last.key = "Tab" /\ NoSelectionBefore
    /\ Last.tabWidth > 0
    /\ ClassOf(PreText) \notin {MarkdownStateNumberedList, MarkdownStateBulletPointList}
    => IF Last.insertSpacesForTabs
       THEN /\ document = InsertedAtCursor(ToNextTabStop(PreColumn, Last.tabWidth))
            /\ Len(document) - Len(Last.document) \in 1..Last.tabWidth
            /\ position = anchor
            /\ PositionInBlock(document, position) % Last.tabWidth = 0
            /\ PositionInBlock(document, position) > PreColumn
       ELSE document = InsertedAtCursor(<<"\t">>)

\* one space has taken the cursor from column 3 to column 4
C20_Witness ==
    /\ trace # <<>> /\ Last.key = "Tab" /\ NoSelectionBefore
    /\ Last.insertSpacesForTabs /\ Last.tabWidth = 4
    /\ PreText = <<" ", ">", " ", "a", " ", "*">> /\ PreColumn = 3
    /\ LineNow = <<" ", ">", " ", " ", "a", " ", "*">>
    /\ PositionInBlock(document, position) = 4

(***************************************************************************)
(* C21: a typed character ch only moves the cursor one position to the     *)
(* right, the text unchanged, if and only if auto-matching is enabled,     *)
(* nothing is selected, ch is the closer of a registered pair whose opener *)
(* has its flag enabled, and the character after the cursor on the same    *)
(* line is ch; in every other case the key is not skipped over, and with   *)
(* nothing selected it inserts text.                                       *)
(***************************************************************************)
\* the conditions of a skip-over when the last key, the character ch, was typed
SkipOverDue(ch) ==
    /\ Last.autoMatchEnabled
    /\ NoSelectionBefore
    /\ \E o \in Openers : InitialMarkupPairs[o] = ch /\ Last.autoMatchFilter[o]
    /\ PreColumn < Len(PreText)
    /\ PreText[PreColumn + 1] = ch

C21_SkipOver ==
    trace # <<>> /\ Last.key = "Character"
    => IF SkipOverDue(Last.arg)
       THEN /\ Last.handled = "skip"
            /\ document = Last.document
            /\ position = Last.position + 1
            /\ anchor = position
       ELSE /\ Last.handled # "skip"
            /\ NoSelectionBefore => Len(document) > Len(Last.document)

C21_Witness ==
    /\ trace # <<>> /\ Last.key = "Character" /\ Last.arg = ")"
    /\ Last.document = <<"(", ")">> /\ Last.position = 1 /\ NoSelectionBefore
    /\ SkipOverDue(")")
    /\ document = <<"(", ")">> /\ position = 2

(***************************************************************************)
(* C22: Backspace with the cursor before the end of the structural prefix  *)
(* of a numbered, bullet or task item (at column 0, in the leading         *)
(* whitespace or in the marker) is not handled by the engine and does not  *)
(* remove the marker: at most the one character before the cursor goes.    *)
(***************************************************************************)
C22_BackspaceBeforePrefixEnd ==
    PlainBackspace =>
        \A a \in {LeadingSpace(PreText)}, n \in Columns :
            ListPrefix(PreText, a, n) /\ PreColumn < n =>
                /\ ~Last.handled
                /\ document = IF Last.position = 0 THEN Last.document
                              ELSE RemoveText(Last.document, Last.position - 1,
                                              Last.position)

\* Backspace at column 0 of an empty bullet item has removed the marker
C22_MarkerRemovedAtLineStart ==
    /\ PlainBackspace
    /\ Last.document = <<"*", " ">> /\ Last.position = 0
    /\ Last.handled
    /\ document = <<>>

(***************************************************************************)
(* C23: on every line classified as a blockquote, with or without quoted   *)
(* content after the markers, and with no selection, the engine handles    *)
(* Backspace and deletes from the last '>' of the line to the end of the   *)
(* line, leaving the text before that '>' unchanged.                       *)
(***************************************************************************)
\* the index, from 1, of the last '>' of s
LastQuote(s) ==
    CHOOSE i \in 1..Len(s) : s[i] = ">" /\ \A j \in (i + 1)..Len(s) : s[j] # ">"

\* the document of the last key with its cursor's line cut before its last '>'
CutAtLastQuote ==
    SubSeq(Last.document, 1, LineStartBefore + LastQuote(PreText) - 1) \o LinesAfter

\* the document of the last key without the character before its cursor
WithoutCharBefore ==
    IF Last.position = 0 THEN Last.document
    ELSE SubSeq(Last.document, 1, Last.position - 1)
             \o SubSeq(Last.document, Last.position + 1, Len(Last.document))

C23_BackspaceBlockquote ==
    PlainBackspace /\ ClassOf(PreText) = MarkdownStateBlockquote
    => Last.handled /\ document = CutAtLastQuote

\* C23 as amended: the engine cuts the line at its last '>' only when the
\* whole line is markers and whitespace; on a blockquote line with quoted
\* content it does not handle the key, and the character before the cursor
\* is deleted
C23_BackspaceEmptyQuote ==
    PlainBackspace /\ ClassOf(PreText) = MarkdownStateBlockquote
    => IF \E k \in 0..3 : QuotePrefix(PreText, k, Len(PreText))
       THEN Last.handled /\ document = CutAtLastQuote
       ELSE ~Last.handled /\ document = WithoutCharBefore

C23_Witness ==
    /\ PlainBackspace
    /\ PreText = <<" ", ">", " ", ">", " ">> /\ PreColumn = 1
    /\ LinesAfter # <<>>
    /\ Last.handled
    /\ BlockText(document, position) = <<" ", ">", " ">>

(***************************************************************************)
(* C24: Tab without selection on a numbered or bullet item that has        *)
(* content after its marker prefix changes neither the number nor the      *)
(* marker and does not go to the start of the line: it inserts one whole   *)
(* indent unit, a tab or tabWidth spaces, at the cursor, and the cursor    *)
(* stays after the inserted text.                                          *)
(***************************************************************************)
C24_TabOnItemWithContent ==
    trace # <<>> /\ Last.key = "Tab" /\ NoSelectionBefore
    => \A a \in {LeadingSpace(PreText)}, n \in Columns :
           ListPrefix(PreText, a, n) /\ n < Len(PreText)
           => /\ document = InsertedAtCursor(UnitOf(Last))
              /\ position = Last.position + Len(UnitOf(Last))
              /\ anchor = position

\* two spaces inserted at column 5 of an indented bullet item, tab width 2
C24_Witness ==
    /\ trace # <<>> /\ Last.key = "Tab" /\ NoSelectionBefore
    /\ Last.insertSpacesForTabs /\ Last.tabWidth = 2 /\ Last.bulletPointCyclingEnabled
    /\ PreText = <<" ", "*", " ", "a", " ", "*">> /\ PreColumn = 5
    /\ LineNow = <<" ", "*", " ", "a", " ", " ", " ", "*">>
    /\ PositionInBlock(document, position) = 7

(***************************************************************************)
(* C25: Shift+Tab without selection, with bullet-point cycling enabled, on *)
(* an empty bullet item that starts with its marker (no leading tab or     *)
(* space) removes nothing and still rotates the marker: "* " becomes "+ ". *)
(***************************************************************************)
C25_OutdentRotatesUnindented ==
    /\ trace # <<>> /\ Last.key = "Backtab" /\ NoSelectionBefore
    /\ Last.bulletPointCyclingEnabled
    /\ BulletPrefix(PreText, 0, Len(PreText))
    => /\ document = LinesBefore \o <<OutdentMap[PreText[1]]>>
                         \o Part(PreText, 2, Len(PreText)) \o LinesAfter
       /\ document # Last.document
       /\ Len(document) = Len(Last.document)

C25_Witness ==
    /\ trace # <<>> /\ Last.key = "Backtab" /\ NoSelectionBefore
    /\ Last.bulletPointCyclingEnabled
    /\ Last.document = <<"*", " ">>
    /\ document = <<"+", " ">>

(***************************************************************************)
(* C26: whatever the order of text changes and ticks of the typing timer,  *)
(* the signals typingResumed and typingPaused alternate strictly, starting *)
(* with typingResumed: neither is emitted twice in a row.                  *)
(***************************************************************************)
C26_SignalsAlternate ==
    \A i \in 1..Len(signals) :
        signals[i] = IF i % 2 = 1 THEN TypingResumed ELSE TypingPaused

\* typingResumed has been emitted twice with no typingPaused in between
C26_ResumedTwice ==
    /\ Len(signals) = 2
    /\ signals = <<TypingResumed, TypingResumed>>
    /\ Len(trace) = 2 /\ Last.key = "Character"

\* what does hold: the first signal is typingResumed, and typingPaused is
\* never emitted twice in a row
C26_PausedNeverRepeats ==
    /\ signals # <<>> => signals[1] = TypingResumed
    /\ \A i \in 1..(Len(signals) - 1) :
           signals[i] = TypingPaused => signals[i + 1] = TypingResumed

=============================================================================
